---- MODULE Spec2Model ----
(***************************************************************************)
(* browser-manager (src/src/lib.rs): detection of locally installed        *)
(* browsers and their drivers, and resolution of the project directory.    *)
(*                                                                         *)
(* Paths are strings.  In a path the character "#" stands for a byte       *)
(* sequence that is not valid UTF-8 and "?" for U+FFFD, the character      *)
(* Path::display() prints in its place.                                    *)
(*                                                                         *)
(* Option and Result values are sequences of length at most one:           *)
(* None and Err(_) are <<>>, Some(x) and Ok(x) are <<x>>.                  *)
(***************************************************************************)
EXTENDS Naturals, Sequences, FiniteSets

VARIABLES
    os,        \* env::consts::OS of the build
    PATH,      \* the PATH environment variable: None (unset) or Some(sequence of directories)
    files,     \* the executable regular files on disk (full paths)
    catalog,   \* the list get_available_browsers returned in this environment, when a caller holds one
    ret,       \* the last call of can_find_driver / find_browser_for: [op, arg, val]
    home,      \* the user's home directory (a sequence of components), when the platform knows one
    xdg,       \* $XDG_CONFIG_HOME (a sequence of components), when set
    disk,      \* the kind of every directory path get_project_dir can touch: "none", "dir" or "file"
    projRet,   \* the outcome of the last get_project_dir call: [kind, path]
    mkdirs,    \* the directories this process has created
    calls,     \* the number of get_project_dir calls made
    alive      \* FALSE once the process has panicked

envVars == <<os, PATH, files>>
dirVars == <<home, xdg, disk, projRet, mkdirs, calls, alive>>
vars == <<os, PATH, files, catalog, ret, home, xdg, disk, projRet, mkdirs, calls, alive>>

None == <<>>
Some(x) == <<x>>

-----------------------------------------------------------------------------
(* Bounds of the model *)

\* the most files of FileUniverse present at once
MaxFiles == 2
\* the most directories listed in PATH
MaxPathLen == 2
\* the most get_project_dir calls one process makes
MaxCalls == 2

-----------------------------------------------------------------------------
(* Strings *)

Contains(s, t) ==
    \E i \in 1..(Len(s) + 1 - Len(t)) : SubSeq(s, i, i + Len(t) - 1) = t

EndsWith(s, t) ==
    /\ Len(t) <= Len(s)
    /\ SubSeq(s, Len(s) - Len(t) + 1, Len(s)) = t

\* Path::display().to_string(): String::from_utf8_lossy, which leaves valid
\* text as it is and prints each byte sequence that is not UTF-8 as U+FFFD
RECURSIVE Display(_)
Display(p) ==
    LET bad == { i \in 1..Len(p) : SubSeq(p, i, i) = "#" }
    IN  IF bad = {} THEN p
        ELSE LET i == CHOOSE k \in bad : \A m \in bad : k <= m
             IN  SubSeq(p, 1, i - 1) \o "?" \o Display(SubSeq(p, i + 1, Len(p)))

\* Path::join of a directory and a file name
Join(dir, name) == dir \o "/" \o name

-----------------------------------------------------------------------------
(* The environment *)

BinDir == "/usr/local/bin"
OptDir == "/opt/firefox"
RawDir == "/srv/#"
FirefoxAppDir == "/Applications/Firefox.app/Contents/MacOS"

FirefoxAppPath == "/Applications/Firefox.app/Contents/MacOS/firefox-bin"
ChromeAppPath == "/Applications/Google Chrome.app/Contents/MacOS/Google Chrome"
SafariDriverPath == "/usr/bin/safaridriver"
SafariAppPath == "/Applications/Safari.app/Contents/MacOS/Safari"

\* the directories PATH may list
PathDirs == {BinDir, OptDir, RawDir, FirefoxAppDir}

\* the files that may exist
FileUniverse ==
    { Join(BinDir, "firefox"), Join(BinDir, "firefox-bin"), Join(BinDir, "chrome"),
      Join(BinDir, "geckodriver"), Join(BinDir, "chromedriver"),
      Join(OptDir, "Google Chrome"),
      Join(RawDir, "chrome"), Join(RawDir, "chromedriver"),
      FirefoxAppPath, ChromeAppPath }

\* env::consts::OS: is_mac tells "macos" from every other value, which "linux" stands for
OSes == {"macos", "linux"}

\* the sequences of distinct directories of length at most n
RECURSIVE DirSeqs(_)
DirSeqs(n) ==
    IF n = 0 THEN {<<>>}
    ELSE DirSeqs(n - 1) \cup
         { Append(s, d) : s \in { t \in DirSeqs(n - 1) : Len(t) = n - 1 },
                          d \in PathDirs }

DistinctDirSeqs(n) ==
    { s \in DirSeqs(n) : \A i, j \in 1..Len(s) : i # j => s[i] # s[j] }

\* the browser names a caller asks for
Queries == {"firefox", "chrome", "Safari", "safari"}

\* the driver names a caller asks for
Drivers == {"geckodriver", "chromedriver", "safaridriver"}

-----------------------------------------------------------------------------
(* PATH resolution *)

\* Path::is_file
is_file(path) == path \in files

\* which::which over the directories of PATH, in order
RECURSIVE which_in(_, _)
which_in(dirs, exe) ==
    IF dirs = <<>> THEN None
    ELSE IF is_file(Join(Head(dirs), exe)) THEN Some(Join(Head(dirs), exe))
    ELSE which_in(Tail(dirs), exe)

\* which::which: Ok(path) or Err(_)
which(exe) == IF PATH = None THEN None ELSE which_in(PATH[1], exe)

\* on Err, the name itself instead of the empty path
can_find_driver_echo(driver) ==
    LET result == which(driver)
    IN  IF result # None THEN result[1] ELSE driver

can_find_driver(driver) ==
    LET result == which(driver)
    IN  IF result # None THEN result[1] ELSE ""

-----------------------------------------------------------------------------
(* The Browser record (mod browser) *)

\* Browser::new(name, driver_path, browser_path, version)
Browser_new(name, driver_path, browser_path, version) ==
    [name |-> name, driver_path |-> driver_path,
     browser_path |-> browser_path, version |-> version]

-----------------------------------------------------------------------------
(* get_available_browsers *)

\* the candidate executable names, in probing order
browsers == <<"firefox", "firefox-bin", "Google Chrome", "chrome">>

\* classification by the end of the path instead of by substring
is_firefox_path_suffix(path) == EndsWith(Display(path), "firefox")

\* path.display().to_string().contains("firefox")
is_firefox_path(path) == Contains(Display(path), "firefox")

\* the body of the loop over the candidates, for one resolved path
browser_for_path(path) ==
    IF is_firefox_path(path)
    THEN Browser_new("firefox", Display(can_find_driver("geckodriver")), Display(path), "")
    ELSE Browser_new("chrome", Display(can_find_driver("chromedriver")), Display(path), "")

\* for exe in &browsers { match which(exe) { Ok(path) => push, Err(_) => {} } }
RECURSIVE scan_path(_, _)
scan_path(exes, available_browsers) ==
    IF exes = <<>> THEN available_browsers
    ELSE LET result == which(Head(exes))
         IN  IF result # None
             THEN scan_path(Tail(exes), Append(available_browsers, browser_for_path(result[1])))
             ELSE scan_path(Tail(exes), available_browsers)

check_path(name, path, driver) ==
    IF is_file(path)
    THEN Some(Browser_new(name, Display(can_find_driver(driver)), Display(path), ""))
    ELSE None

\* the fixed paths checked whatever the PATH scan found
check_usual_places_always(available_browsers) ==
    available_browsers
        \o check_path("firefox", FirefoxAppPath, "geckodriver")
        \o check_path("chrome", ChromeAppPath, "chromedriver")

\* if available_browsers.len() == 0 { check_path(firefox ...); check_path(chrome ...) }
check_usual_places(available_browsers) ==
    IF Len(available_browsers) = 0
    THEN available_browsers
             \o check_path("firefox", FirefoxAppPath, "geckodriver")
             \o check_path("chrome", ChromeAppPath, "chromedriver")
    ELSE available_browsers

is_mac == os = "macos"

safari == Browser_new("Safari", SafariDriverPath, SafariAppPath, "")

\* Safari pushed only when its driver is a file on disk
push_safari_if_present(available_browsers) ==
    IF is_mac /\ is_file(SafariDriverPath)
    THEN Append(available_browsers, safari)
    ELSE available_browsers

\* if is_mac() { available_browsers.push(safari) }
push_safari(available_browsers) ==
    IF is_mac THEN Append(available_browsers, safari) ELSE available_browsers

get_available_browsers ==
    push_safari(check_usual_places(scan_path(browsers, <<>>)))

-----------------------------------------------------------------------------
(* find_browser_for *)

\* the scan without the break: the last match wins
RECURSIVE find_last(_, _)
find_last(available_browsers, browser_name) ==
    IF available_browsers = <<>> THEN None
    ELSE LET rest == find_last(Tail(available_browsers), browser_name)
         IN  IF rest # None THEN rest
             ELSE IF Head(available_browsers).name = browser_name
                  THEN Some(Head(available_browsers))
                  ELSE None

\* for browser in &available_browsers { if browser.name.eq(&browser_name) { found; break } }
RECURSIVE find_first(_, _)
find_first(available_browsers, browser_name) ==
    IF available_browsers = <<>> THEN None
    ELSE IF Head(available_browsers).name = browser_name
         THEN Some(Head(available_browsers))
         ELSE find_first(Tail(available_browsers), browser_name)

\* the scan starts after the first entry
find_browser_for_skip(browser_name) ==
    LET available_browsers == get_available_browsers
    IN  IF available_browsers = <<>> THEN None
        ELSE find_first(Tail(available_browsers), browser_name)

find_browser_for(browser_name) ==
    LET available_browsers == get_available_browsers
    IN  find_first(available_browsers, browser_name)

-----------------------------------------------------------------------------
(* The calls a user of the library makes, and the change of PATH the tests make *)

NoCall == [op |-> "none", arg |-> "", val |-> None]

\* let available_browsers = get_available_browsers();
CallGetAvailableBrowsers ==
    /\ catalog' = Some(get_available_browsers)
    /\ ret' = NoCall
    /\ UNCHANGED <<envVars, dirVars>>

\* find_browser_for(browser_name)
CallFindBrowserFor ==
    \E browser_name \in Queries :
        /\ ret' = [op |-> "find_browser_for", arg |-> browser_name,
                   val |-> find_browser_for(browser_name)]
        /\ UNCHANGED <<catalog, envVars, dirVars>>

\* can_find_driver(driver)
CallCanFindDriver ==
    \E driver \in Drivers :
        /\ ret' = [op |-> "can_find_driver", arg |-> driver,
                   val |-> can_find_driver(driver)]
        /\ UNCHANGED <<catalog, envVars, dirVars>>

\* tests::cant_find_drivers: PATH set again without one of its directories;
\* what was computed from the old PATH is dropped
RemoveFromPath ==
    /\ PATH # None
    /\ \E driver_path \in PathDirs :
        /\ \E i \in 1..Len(PATH[1]) : PATH[1][i] = driver_path
        /\ PATH' = Some(SelectSeq(PATH[1], LAMBDA pat : pat # driver_path))
    /\ catalog' = None
    /\ ret' = NoCall
    /\ UNCHANGED <<os, files, dirVars>>

-----------------------------------------------------------------------------
(* get_project_dir *)

HomeDir == <<"home", "alice">>
XdgDir == <<"cfg">>

\* ProjectDirs::from("org", "webdriver", "browser-manager") and config_dir():
\* no value when the platform knows no home directory
ProjectDirs_from(o, h, x) ==
    IF h = None THEN None
    ELSE IF o = "macos"
         THEN Some(h[1] \o <<"Library", "Application Support", "org.webdriver.browser-manager">>)
         ELSE IF x # None
              THEN Some(x[1] \o <<"browser-manager">>)
              ELSE Some(h[1] \o <<".config", "browser-manager">>)

\* a path and the directories above it, from the top
Prefixes(p) == [i \in 1..Len(p) |-> SubSeq(p, 1, i)]

Range(f) == { f[i] : i \in DOMAIN f }

\* every path a configuration directory passes through
DiskPaths ==
    UNION { Range(Prefixes(ProjectDirs_from(o, Some(HomeDir), x)[1])) :
                o \in OSes, x \in {None, Some(XdgDir)} }

Kinds == {"none", "dir", "file"}

\* something exists only inside a directory
DiskOk(d) ==
    \A p \in DiskPaths :
        (Len(p) > 1 /\ d[p] # "none") => d[SubSeq(p, 1, Len(p) - 1)] = "dir"

\* Path::is_dir
is_dir(p) == disk[p] = "dir"

\* fs::create_dir_all(p), for p that is not a directory: the outcomes [ok, made].
\* It fails where a file is in the way, and it may fail (permissions, a full
\* disk) before any of the missing directories, having made those above it.
create_dir_all(p) ==
    LET chain == Prefixes(p)
        missing == SelectSeq(chain, LAMBDA q : disk[q] = "none")
    IN  IF \E i \in 1..Len(chain) : disk[chain[i]] = "file"
        THEN {[ok |-> FALSE, made |-> {}]}
        ELSE { [ok |-> k = Len(missing), made |-> Range(SubSeq(missing, 1, k))] :
                   k \in 0..Len(missing) }

\* the error handed back to the caller instead of the panic
on_created_propagate(selenium_dir, created) ==
    IF created.ok
    THEN [kind |-> "Ok", path |-> selenium_dir]
    ELSE [kind |-> "Err", path |-> <<>>]

\* match _created { Ok(_) => Ok(PathBuf::from(selenium_dir)), Err(_) => panic!(..) }
on_created(selenium_dir, created) ==
    IF created.ok
    THEN [kind |-> "Ok", path |-> selenium_dir]
    ELSE [kind |-> "panic", path |-> <<>>]

\* the parent of the directory instead of the directory
existing_dir_parent(selenium_dir) ==
    [kind |-> "Ok", path |-> SubSeq(selenium_dir, 1, Len(selenium_dir) - 1)]

\* if selenium_dir.is_dir() { Ok(PathBuf::from(selenium_dir)) }
existing_dir(selenium_dir) == [kind |-> "Ok", path |-> selenium_dir]

get_project_dir ==
    /\ alive
    /\ calls < MaxCalls
    /\ calls' = calls + 1
    /\ LET proj_dirs == ProjectDirs_from(os, home, xdg)
       IN  IF proj_dirs = None
           THEN /\ projRet' = [kind |-> "panic", path |-> <<>>]
                /\ UNCHANGED <<disk, mkdirs>>
           ELSE LET selenium_dir == proj_dirs[1]
                IN  IF is_dir(selenium_dir)
                    THEN /\ projRet' = existing_dir(selenium_dir)
                         /\ UNCHANGED <<disk, mkdirs>>
                    ELSE \E created \in create_dir_all(selenium_dir) :
                            /\ disk' = [p \in DiskPaths |->
                                           IF p \in created.made THEN "dir" ELSE disk[p]]
                            /\ mkdirs' = mkdirs \cup created.made
                            /\ projRet' = on_created(selenium_dir, created)
    /\ alive' = (projRet'.kind # "panic")
    /\ UNCHANGED <<envVars, catalog, ret, home, xdg>>

-----------------------------------------------------------------------------
(* The detection specification: every environment within the bounds *)

InitDirIdle ==
    /\ home = None
    /\ xdg = None
    /\ disk = [p \in DiskPaths |-> "none"]
    /\ projRet = [kind |-> "none", path |-> <<>>]
    /\ mkdirs = {}
    /\ calls = 0
    /\ alive = TRUE

Init ==
    /\ os \in OSes
    /\ PATH \in {None} \cup { Some(s) : s \in DistinctDirSeqs(MaxPathLen) }
    /\ files \in { f \in SUBSET FileUniverse : Cardinality(f) <= MaxFiles }
    /\ catalog = None
    /\ ret = NoCall
    /\ InitDirIdle

Next ==
    \/ CallGetAvailableBrowsers
    \/ CallFindBrowserFor
    \/ CallCanFindDriver
    \/ RemoveFromPath

Spec == Init /\ [][Next]_vars

-----------------------------------------------------------------------------
(* The project directory specification: every home, XDG_CONFIG_HOME and disk *)

InitDir ==
    /\ os \in OSes
    /\ PATH = None
    /\ files = {}
    /\ catalog = None
    /\ ret = NoCall
    /\ home \in {None, Some(HomeDir)}
    /\ xdg \in {None, Some(XdgDir)}
    /\ disk \in { d \in [DiskPaths -> Kinds] : DiskOk(d) }
    /\ projRet = [kind |-> "none", path |-> <<>>]
    /\ mkdirs = {}
    /\ calls = 0
    /\ alive = TRUE

NextDir == get_project_dir

SpecDir == InitDir /\ [][NextDir]_vars

-----------------------------------------------------------------------------
(* Properties.  The environment is read directly here: which directories   *)
(* of PATH hold a file of a given name.                                    *)

PathList == IF PATH = None THEN <<>> ELSE PATH[1]

Hits(exe) == { i \in 1..Len(PathList) : Join(PathList[i], exe) \in files }

Resolves(exe) == Hits(exe) # {}

Resolved(exe) ==
    Join(PathList[CHOOSE i \in Hits(exe) : \A j \in Hits(exe) : i <= j], exe)

Locate(driver) == IF Resolves(driver) THEN Resolved(driver) ELSE ""

\* the candidates PATH resolves, in probing order
ResolvedCandidates == SelectSeq(browsers, Resolves)

MacExtra == IF os = "macos" THEN 1 ELSE 0

\* C1: find_browser_for(n) returns the lowest-index entry of the catalog built
\* from the environment whose name is exactly n, and nothing iff no entry has
\* that name.
C1_FirstMatch ==
    ret.op = "find_browser_for" =>
        LET cat == get_available_browsers
            hits == { i \in 1..Len(cat) : cat[i].name = ret.arg }
        IN  IF hits = {}
            THEN ret.val = None
            ELSE ret.val = Some(cat[CHOOSE i \in hits : \A j \in hits : i <= j])

\* a lookup answered with the first of two different entries of the same name
C1_Witness ==
    /\ ret.op = "find_browser_for"
    /\ ret.val # None
    /\ LET cat == get_available_browsers
       IN  \E i, j \in 1..Len(cat) :
               /\ i < j
               /\ cat[i].name = ret.arg
               /\ cat[j].name = ret.arg
               /\ cat[i] # cat[j]
               /\ ret.val[1] = cat[i]

\* C2: when at least one candidate resolved via PATH, the catalog holds one
\* entry per resolved candidate and, after them, nothing but Safari: the fixed
\* /Applications paths add no entry, even when those files exist.
C2_FallbackGated ==
    (catalog # None /\ Len(ResolvedCandidates) >= 1) =>
        LET cat == catalog[1]
        IN  /\ Len(cat) = Len(ResolvedCandidates) + MacExtra
            /\ \A i \in (Len(ResolvedCandidates) + 1)..Len(cat) : cat[i].name = "Safari"

\* a catalog built from a PATH hit while a fixed fallback path exists on disk
C2_Witness ==
    /\ catalog # None
    /\ Len(ResolvedCandidates) >= 1
    /\ "/Applications/Google Chrome.app/Contents/MacOS/Google Chrome" \in files

\* C3: on macOS the catalog ends with exactly one Safari entry, with the fixed
\* driver and browser paths and an empty version, and is that entry alone when
\* nothing else is detected; elsewhere no entry is named Safari.
C3_Safari ==
    catalog # None =>
        LET cat == catalog[1]
        IN  IF os = "macos"
            THEN /\ Len(cat) >= 1
                 /\ cat[Len(cat)] =
                        [name |-> "Safari",
                         driver_path |-> "/usr/bin/safaridriver",
                         browser_path |-> "/Applications/Safari.app/Contents/MacOS/Safari",
                         version |-> ""]
                 /\ \A i \in 1..(Len(cat) - 1) : cat[i].name # "Safari"
                 /\ ( ( /\ Len(ResolvedCandidates) = 0
                        /\ FirefoxAppPath \notin files
                        /\ ChromeAppPath \notin files ) => Len(cat) = 1 )
            ELSE \A i \in 1..Len(cat) : cat[i].name # "Safari"

\* a macOS catalog with other browsers before Safari
C3_Witness ==
    /\ catalog # None
    /\ os = "macos"
    /\ Len(catalog[1]) >= 3

C4_Result ==
    ret.op = "can_find_driver" =>
        IF Resolves(ret.arg)
        THEN /\ ret.val = Resolved(ret.arg)
             /\ ret.val # ""
             /\ EndsWith(ret.val, ret.arg)
        ELSE ret.val = ""

\* C4: can_find_driver(name) returns the path PATH resolution gives (not empty,
\* ending in name), the empty path whenever resolution fails, and the call
\* changes nothing of the environment or of what else the caller holds.
C4_Locator ==
    /\ []C4_Result
    /\ [][ret'.op = "can_find_driver" => UNCHANGED <<envVars, catalog, dirVars>>]_vars

\* a driver found in the second directory of PATH
C4_Witness ==
    /\ ret.op = "can_find_driver"
    /\ ret.val # ""
    /\ Len(PathList) = 2
    /\ ret.val = Join(PathList[2], ret.arg)

\* C5: no two entries of a catalog share a name.
C5_UniqueNames ==
    catalog # None =>
        \A i, j \in 1..Len(catalog[1]) :
            i # j => catalog[1][i].name # catalog[1][j].name

\* C6: off macOS, when no candidate resolves via PATH, the catalog is empty
\* whatever the disk holds.
C6_EmptyOffMac ==
    (catalog # None /\ os # "macos" /\ Len(ResolvedCandidates) = 0) =>
        catalog[1] = <<>>

\* C7: with the environment unchanged since the catalog was built, looking up
\* the name of any of its entries gives a browser of that name: the first
\* entry of the catalog with that name.
C7_LookupConsistent ==
    ( /\ catalog # None
      /\ ret.op = "find_browser_for"
      /\ \E i \in 1..Len(catalog[1]) : catalog[1][i].name = ret.arg ) =>
        LET cat == catalog[1]
            hits == { i \in 1..Len(cat) : cat[i].name = ret.arg }
        IN  /\ ret.val # None
            /\ ret.val[1].name = ret.arg
            /\ ret.val[1] = cat[CHOOSE i \in hits : \A j \in hits : i <= j]

\* the name of the only entry of a held catalog looked up
C7_Witness ==
    /\ catalog # None
    /\ Len(catalog[1]) = 1
    /\ ret.op = "find_browser_for"
    /\ ret.arg = catalog[1][1].name
    /\ ret.val = Some(catalog[1][1])

\* C10: the entries of the PATH scan are, in probing order, one per resolved
\* candidate: named "firefox" if the resolved path contains "firefox" and
\* "chrome" otherwise, with the matching driver as can_find_driver gives it,
\* the resolved path as browser_path and an empty version; a candidate that
\* does not resolve adds nothing.
C10_ScanEntries ==
    catalog # None =>
        LET cat == catalog[1]
            hit == ResolvedCandidates
        IN  /\ Len(cat) >= Len(hit)
            /\ \A i \in 1..Len(hit) :
                   LET p == Resolved(hit[i])
                   IN  cat[i] =
                         IF Contains(p, "firefox")
                         THEN [name |-> "firefox",
                               driver_path |-> Display(Locate("geckodriver")),
                               browser_path |-> Display(p),
                               version |-> ""]
                         ELSE [name |-> "chrome",
                               driver_path |-> Display(Locate("chromedriver")),
                               browser_path |-> Display(p),
                               version |-> ""]
            /\ \A i \in (Len(hit) + 1)..Len(cat) :
                   cat[i].browser_path \in
                       { "/Applications/Firefox.app/Contents/MacOS/firefox-bin",
                         "/Applications/Google Chrome.app/Contents/MacOS/Google Chrome",
                         "/Applications/Safari.app/Contents/MacOS/Safari" }
            /\ Len(hit) > 0 =>
                   \A i \in (Len(hit) + 1)..Len(cat) : cat[i].name = "Safari"

\* the candidate "Google Chrome" resolved under a directory named firefox:
\* a firefox entry, with the geckodriver found on PATH
C10_Witness ==
    /\ catalog # None
    /\ \E i \in 1..Len(catalog[1]) :
           /\ catalog[1][i].name = "firefox"
           /\ EndsWith(catalog[1][i].browser_path, "/Google Chrome")
           /\ catalog[1][i].driver_path # ""

ConfigDir == ProjectDirs_from(os, home, xdg)

\* C8: get_project_dir hands no error to its caller: a call returns the
\* configuration directory, which is then a directory on disk, or the process
\* aborts; it aborts exactly when no configuration directory is known or the
\* directory is still missing after the one attempt to create it, and nothing
\* is created anywhere else.
C8_OkOrAbort ==
    /\ projRet.kind \in {"none", "Ok", "panic"}
    /\ alive <=> projRet.kind # "panic"
    /\ projRet.kind = "none" <=> calls = 0
    /\ projRet.kind = "Ok" =>
           /\ ConfigDir = Some(projRet.path)
           /\ disk[projRet.path] = "dir"
    /\ projRet.kind = "panic" =>
           \/ ConfigDir = None
           \/ disk[ConfigDir[1]] # "dir"
    /\ mkdirs \subseteq (IF ConfigDir = None THEN {} ELSE Range(Prefixes(ConfigDir[1])))

\* an abort after a failed creation that had already made a parent directory
C8_Witness ==
    /\ projRet.kind = "panic"
    /\ ConfigDir # None
    /\ mkdirs # {}

C9_Exists == projRet.kind = "Ok" => disk[projRet.path] = "dir"

\* C9: a call that follows a call that returned returns the same path and
\* creates nothing; the directory exists once the first call has returned;
\* directories are created by the first call only, and only when the
\* configuration directory was not there.
C9_Idempotent ==
    /\ []C9_Exists
    /\ [][(projRet.kind = "Ok" /\ calls' = calls + 1) =>
              /\ projRet' = projRet
              /\ mkdirs' = mkdirs
              /\ disk' = disk]_vars
    /\ [][mkdirs' # mkdirs =>
              /\ calls = 0
              /\ ConfigDir # None
              /\ disk[ConfigDir[1]] # "dir"]_vars

\* a second call that returned, after a first call that created the directory
C9_Witness ==
    /\ calls = 2
    /\ projRet.kind = "Ok"
    /\ mkdirs # {}

====
